---------------------------- MODULE Spec2Model ----------------------------
(***************************************************************************)
(* Model of motortest5_mp.py, the Mission Planner bench script that        *)
(* toggles the X8 motor test through SCR_USER4 and monitors ESC and        *)
(* Arduino telemetry once per second.                                      *)
(*                                                                         *)
(* Numbers.  Telemetry and parameter values are Python floats.  The model  *)
(* draws them from the integers plus one value NaN.  On integer inputs     *)
(* every comparison of the script is decided exactly as in IEEE doubles:   *)
(*   - x < 0.5 is 2*x < 1;                                                 *)
(*   - abs(m - e) / e > 0.30 is 100*|m - e| > 30*e: the quotient of two    *)
(*     integers below 2^53 is correctly rounded, as is the literal, and    *)
(*     for e <= 10^4 a quotient different from the literal's real value    *)
(*     is at least 10^-6 away from it;                                     *)
(*   - every ordered comparison with NaN is false.                         *)
(* A fraction literal such as 0.30 is kept as the pair <<30, 100>>.        *)
(*                                                                         *)
(* Indices.  The script indexes the ESC lists 0..7 and prints i + 1; the   *)
(* model indexes them 1..8, the printed number.  stage_idx is 0-based as   *)
(* in the script, so the stage record is STAGES[stage_idx + 1].            *)
(***************************************************************************)
EXTENDS Integers, Sequences, FiniteSets, TLC

VARIABLES
    pc,             \* position of the script
    current,        \* the script's variable "current"
    lastRead,       \* raw result of the most recent Script.GetParam
    t,              \* loop variable of "for t in range(...)"
    stage_idx,      \* result of get_stage_at_time(t)
    stage_elapsed,
    rpms,           \* telemetry of the most recent read
    currents,
    temps,
    total_curr,
    findings,       \* WARN:/ABORT: lines of the most recent evaluation
    aborted,        \* return value of the most recent check_and_maybe_abort
    writes,         \* every Script.ChangeParam call: value, result, place
    console,        \* lines printed outside the per-tick status/WARN lines
    nTicks,         \* number of telemetry reads so far
    nEvals,         \* number of calls of check_and_maybe_abort so far
    nRereads,       \* number of in-loop re-reads of the flag so far
    loopExit,       \* why the monitoring loop ended
    med_values,     \* argument of median when it is run on its own
    med_result      \* what median returned for med_values

vars == <<pc, current, lastRead, t, stage_idx, stage_elapsed, rpms, currents,
          temps, total_curr, findings, aborted, writes, console, nTicks,
          nEvals, nRereads, loopExit, med_values, med_result>>

----------------------------------------------------------------------------
(* Values *)

\* Python's None, and a present value
None == <<>>
Some(v) == <<v>>

\* float("nan"): a value outside the range of every reading of the model
NaN == -1000000

Abs(x) == IF x < 0 THEN 0 - x ELSE x

\* ordered comparisons of floats: false as soon as one side is NaN
FGt(a, b) == a # NaN /\ b # NaN /\ a > b
FGe(a, b) == a # NaN /\ b # NaN /\ a >= b
FLt(a, b) == a # NaN /\ b # NaN /\ a < b
FLe(a, b) == a # NaN /\ b # NaN /\ a <= b

\* abs(m - e) / e > frac, for e > 0 and frac = <<num, den>>
FracGt(m, e, frac) == m # NaN /\ frac[2] * Abs(m - e) > frac[1] * e

----------------------------------------------------------------------------
(* Configuration *)

STAGES == <<
    [name |-> "Stage 1 (10%)", duration_sec |-> 10 * 60,
     expected_rpm |-> 0, expected_esc_curr |-> 0, expected_total_curr |-> 0],
    [name |-> "Stage 2 (20%)", duration_sec |-> 10 * 60,
     expected_rpm |-> 3500, expected_esc_curr |-> 10, expected_total_curr |-> 80],
    [name |-> "Stage 3 (40%)", duration_sec |-> 10 * 60,
     expected_rpm |-> 7000, expected_esc_curr |-> 20, expected_total_curr |-> 160] >>

RECURSIVE SumDurations(_)
SumDurations(n) == IF n = 0 THEN 0 ELSE SumDurations(n - 1) + STAGES[n].duration_sec

TOTAL_TEST_DURATION_SEC == SumDurations(Len(STAGES))

AUTO_STOP_ON_ANOMALY == TRUE

RAMP_UP_GRACE_SEC == 5

RPM_NEAR_ZERO_ABORT == 500
TEMP_CRIT_ABORT == 80
ESC_CURR_MAX_ABORT == 100
TOTAL_CURR_MAX_ABORT == 100

RPM_EXPECT_WARN_FRAC == <<10, 100>>
RPM_EXPECT_ABORT_FRAC == <<30, 100>>

TEMP_DIFF_WARN == 10
TEMP_DIFF_ABORT == 20

CURR_EXPECT_WARN_FRAC == <<10, 100>>
CURR_EXPECT_ABORT_FRAC == <<30, 100>>

\* the ESCs: range(1, 9) in read_esc_telemetry, range(8) in the checks
NUM_ESC == 8
ESCS == 1..NUM_ESC

----------------------------------------------------------------------------
(* get_stage_at_time *)

\* the for loop of get_stage_at_time from stage idx (1-based) with accum
RECURSIVE StageScan(_, _, _)
StageScan(idx, accum, t_sec) ==
    IF idx > Len(STAGES)
    THEN <<Len(STAGES) - 1, STAGES[Len(STAGES)].duration_sec>>
    ELSE IF t_sec < accum + STAGES[idx].duration_sec
         THEN <<idx - 1, t_sec - accum>>
         ELSE StageScan(idx + 1, accum + STAGES[idx].duration_sec, t_sec)

\* the scan with "t_sec <= accum + dur"
RECURSIVE StageScan_Inclusive(_, _, _)
StageScan_Inclusive(idx, accum, t_sec) ==
    IF idx > Len(STAGES)
    THEN <<Len(STAGES) - 1, STAGES[Len(STAGES)].duration_sec>>
    ELSE IF t_sec <= accum + STAGES[idx].duration_sec
         THEN <<idx - 1, t_sec - accum>>
         ELSE StageScan_Inclusive(idx + 1, accum + STAGES[idx].duration_sec, t_sec)

get_stage_at_time_Inclusive(t_sec) == StageScan_Inclusive(1, 0, t_sec)

get_stage_at_time(t_sec) == StageScan(1, 0, t_sec)

----------------------------------------------------------------------------
(* median *)

\* list.sort(): insertion of v into the ascending list s
RECURSIVE Insert(_, _)
Insert(v, s) ==
    IF s = <<>> THEN <<v>>
    ELSE IF v <= Head(s) THEN <<v>> \o s
         ELSE <<Head(s)>> \o Insert(v, Tail(s))

RECURSIVE Sort(_)
Sort(s) == IF s = <<>> THEN <<>> ELSE Insert(Head(s), Sort(Tail(s)))

\* the element the script takes from the sorted list: vals[len(vals) // 2],
\* 0-based in the script, hence + 1 here
MedianPick_LowerMiddle(vals) == vals[(Len(vals) + 1) \div 2]

MedianPick(vals) == vals[(Len(vals) \div 2) + 1]

median(values) ==
    LET vals == SelectSeq(values, LAMBDA v : v # NaN)
    IN  IF vals = <<>> THEN None ELSE Some(MedianPick(Sort(vals)))

----------------------------------------------------------------------------
(* check_and_maybe_abort *)

\* one printed finding: "WARN: ..." or "ABORT: ...", the rule that printed it
\* and the ESC it names (0 for the bench total)
Finding(sev, rule, esc) == [sev |-> sev, rule |-> rule, esc |-> esc]

Continue(acc) == [ret |-> FALSE, out |-> acc]
Abort(acc, rule, esc) == [ret |-> TRUE, out |-> Append(acc, Finding("ABORT", rule, esc))]
Warn(acc, rule, esc) == Append(acc, Finding("WARN", rule, esc))

\* rpms[i] > 0 and rpms[i] < RPM_NEAR_ZERO_ABORT
LowRpmHit(rpm) == FGt(rpm, 0) /\ FLt(rpm, RPM_NEAR_ZERO_ABORT)

RECURSIVE LowRpmLoop(_, _, _)
LowRpmLoop(i, rp, acc) ==
    IF i > NUM_ESC THEN Continue(acc)
    ELSE IF LowRpmHit(rp[i]) THEN Abort(acc, "low_rpm", i)
         ELSE LowRpmLoop(i + 1, rp, acc)

\* the test with "temps[i] > TEMP_CRIT_ABORT"
TempCritHit_Strict(tmp) == FGt(tmp, TEMP_CRIT_ABORT) /\ FGt(tmp, 0)

\* temps[i] >= TEMP_CRIT_ABORT and temps[i] > 0
TempCritHit(tmp) == FGe(tmp, TEMP_CRIT_ABORT) /\ FGt(tmp, 0)

\* the over-temperature scan from the last ESC down to the first
RECURSIVE TempCritLoop_Descending(_, _, _)
TempCritLoop_Descending(i, te, acc) ==
    IF i > NUM_ESC THEN Continue(acc)
    ELSE IF TempCritHit(te[NUM_ESC + 1 - i]) THEN Abort(acc, "over_temp", NUM_ESC + 1 - i)
         ELSE TempCritLoop_Descending(i + 1, te, acc)

\* for i in range(NUM_ESC): the over-temperature check
RECURSIVE TempCritLoop(_, _, _)
TempCritLoop(i, te, acc) ==
    IF i > NUM_ESC THEN Continue(acc)
    ELSE IF TempCritHit(te[i]) THEN Abort(acc, "over_temp", i)
         ELSE TempCritLoop(i + 1, te, acc)

\* currents[i] > ESC_CURR_MAX_ABORT
EscCurrHit(curr) == FGt(curr, ESC_CURR_MAX_ABORT)

RECURSIVE EscCurrLoop(_, _, _)
EscCurrLoop(i, cu, acc) ==
    IF i > NUM_ESC THEN Continue(acc)
    ELSE IF EscCurrHit(cu[i]) THEN Abort(acc, "esc_over_curr", i)
         ELSE EscCurrLoop(i + 1, cu, acc)

\* total_curr > TOTAL_CURR_MAX_ABORT
TotalCurrHit_Off(tc) == FALSE

TotalCurrHit(tc) == FGt(tc, TOTAL_CURR_MAX_ABORT)

\* the classification with "frac >= RPM_EXPECT_WARN_FRAC"
RpmExpectClass_WarnAtEqual(rpm, exp_rpm) ==
    IF FracGt(rpm, exp_rpm, RPM_EXPECT_ABORT_FRAC) THEN "ABORT"
    ELSE IF FracGt(rpm, exp_rpm, RPM_EXPECT_WARN_FRAC)
            \/ (rpm # NaN /\ RPM_EXPECT_WARN_FRAC[2] * Abs(rpm - exp_rpm)
                                = RPM_EXPECT_WARN_FRAC[1] * exp_rpm) THEN "WARN"
    ELSE "NONE"

\* frac = abs(rpms[i] - exp_rpm) / exp_rpm against the two fractions
RpmExpectClass(rpm, exp_rpm) ==
    IF FracGt(rpm, exp_rpm, RPM_EXPECT_ABORT_FRAC) THEN "ABORT"
    ELSE IF FracGt(rpm, exp_rpm, RPM_EXPECT_WARN_FRAC) THEN "WARN"
    ELSE "NONE"

RECURSIVE RpmExpectLoop(_, _, _, _)
RpmExpectLoop(i, rp, exp_rpm, acc) ==
    IF i > NUM_ESC THEN Continue(acc)
    ELSE LET c == RpmExpectClass(rp[i], exp_rpm)
         IN  IF c = "ABORT" THEN Abort(acc, "rpm_expect", i)
             ELSE RpmExpectLoop(i + 1, rp, exp_rpm,
                                IF c = "WARN" THEN Warn(acc, "rpm_expect", i) ELSE acc)

\* adiff = abs(temps[i] - med_temp) against the two differences; a NaN
\* temperature is not skipped by "temps[i] <= 0" and compares false twice
TempDiffClass_AbortAtEqual(tmp, med_temp) ==
    IF tmp = NaN THEN "NONE"
    ELSE IF Abs(tmp - med_temp) >= TEMP_DIFF_ABORT THEN "ABORT"
    ELSE IF Abs(tmp - med_temp) > TEMP_DIFF_WARN THEN "WARN"
    ELSE "NONE"

TempDiffClass(tmp, med_temp) ==
    IF tmp = NaN THEN "NONE"
    ELSE IF Abs(tmp - med_temp) > TEMP_DIFF_ABORT THEN "ABORT"
    ELSE IF Abs(tmp - med_temp) > TEMP_DIFF_WARN THEN "WARN"
    ELSE "NONE"

RECURSIVE TempMedianLoop(_, _, _, _)
TempMedianLoop(i, te, med_temp, acc) ==
    IF i > NUM_ESC THEN Continue(acc)
    ELSE IF FLe(te[i], 0) THEN TempMedianLoop(i + 1, te, med_temp, acc)
    ELSE LET c == TempDiffClass(te[i], med_temp)
         IN  IF c = "ABORT" THEN Abort(acc, "temp_median", i)
             ELSE TempMedianLoop(i + 1, te, med_temp,
                                 IF c = "WARN" THEN Warn(acc, "temp_median", i) ELSE acc)

\* frac = abs(currents[i] - exp_esc_curr) / exp_esc_curr, and the same test
\* of total_curr against exp_total_curr
CurrExpectClass_AbortAtEqual(curr, exp_curr) ==
    IF curr # NaN /\ CURR_EXPECT_ABORT_FRAC[2] * Abs(curr - exp_curr)
                        >= CURR_EXPECT_ABORT_FRAC[1] * exp_curr THEN "ABORT"
    ELSE IF FracGt(curr, exp_curr, CURR_EXPECT_WARN_FRAC) THEN "WARN"
    ELSE "NONE"

CurrExpectClass(curr, exp_curr) ==
    IF FracGt(curr, exp_curr, CURR_EXPECT_ABORT_FRAC) THEN "ABORT"
    ELSE IF FracGt(curr, exp_curr, CURR_EXPECT_WARN_FRAC) THEN "WARN"
    ELSE "NONE"

RECURSIVE CurrExpectLoop(_, _, _, _)
CurrExpectLoop(i, cu, exp_esc_curr, acc) ==
    IF i > NUM_ESC THEN Continue(acc)
    ELSE LET c == CurrExpectClass(cu[i], exp_esc_curr)
         IN  IF c = "ABORT" THEN Abort(acc, "curr_expect", i)
             ELSE CurrExpectLoop(i + 1, cu, exp_esc_curr,
                                 IF c = "WARN" THEN Warn(acc, "curr_expect", i) ELSE acc)

\* the ramp-up gate of the two rpm checks
PastGrace_Strict(elapsed) == elapsed > RAMP_UP_GRACE_SEC

PastGrace(elapsed) == elapsed >= RAMP_UP_GRACE_SEC

\* The checks in the script's order.  ret is the function's return value; out
\* is what it printed: the WARN lines in order and, last, the ABORT line.
check_and_maybe_abort(sidx, elapsed, rp, cu, te, tc) ==
    LET stage == STAGES[sidx + 1]
        exp_rpm == stage.expected_rpm
        exp_esc_curr == stage.expected_esc_curr
        exp_total_curr == stage.expected_total_curr
        r1 == IF PastGrace(elapsed) THEN LowRpmLoop(1, rp, <<>>) ELSE Continue(<<>>)
        r2 == TempCritLoop(1, te, r1.out)
        r3 == EscCurrLoop(1, cu, r2.out)
        r4 == IF TotalCurrHit(tc) THEN Abort(r3.out, "total_over_curr", 0)
              ELSE Continue(r3.out)
        r5 == IF PastGrace(elapsed) /\ exp_rpm > 0
              THEN RpmExpectLoop(1, rp, exp_rpm, r4.out) ELSE Continue(r4.out)
        med_temp == median(SelectSeq(te, LAMBDA x : FGt(x, 0)))
        r6 == IF med_temp # None
              THEN TempMedianLoop(1, te, med_temp[1], r5.out) ELSE Continue(r5.out)
        r7 == IF exp_esc_curr > 0
              THEN CurrExpectLoop(1, cu, exp_esc_curr, r6.out) ELSE Continue(r6.out)
        r8 == IF exp_total_curr > 0
              THEN LET c == CurrExpectClass(tc, exp_total_curr)
                   IN  IF c = "ABORT" THEN Abort(r7.out, "total_expect", 0)
                       ELSE Continue(IF c = "WARN" THEN Warn(r7.out, "total_expect", 0)
                                     ELSE r7.out)
              ELSE Continue(r7.out)
    IN  IF r1.ret THEN r1
        ELSE IF r2.ret THEN r2
        ELSE IF r3.ret THEN r3
        ELSE IF r4.ret THEN r4
        ELSE IF r5.ret THEN r5
        ELSE IF r6.ret THEN r6
        ELSE IF r7.ret THEN r7
        ELSE r8

\* abort(reason): the lines it prints after "ABORT: ..." given the result of
\* Script.ChangeParam(TEST_PARAM_NAME, 0)
AbortConsole_Silent(ok) ==
    IF AUTO_STOP_ON_ANOMALY /\ ok THEN <<"SCR_USER4 set to 0 (test stop requested).">>
    ELSE <<>>

AbortConsole(ok) ==
    IF AUTO_STOP_ON_ANOMALY
    THEN IF ok THEN <<"SCR_USER4 set to 0 (test stop requested).">>
         ELSE <<"WARNING: cannot set SCR_USER4 to 0, check params.">>
    ELSE <<>>

\* abort(reason): the parameter writes it makes
AbortWrites_Skipped(ok) == <<>>

AbortWrites(ok) ==
    IF AUTO_STOP_ON_ANOMALY THEN <<[val |-> 0, ok |-> ok, at |-> "abort"]>> ELSE <<>>

----------------------------------------------------------------------------
(* Inputs: what the environment can return *)

\* Script.GetParam(TEST_PARAM_NAME): unavailable, 0 (off) or 1 (on)
FlagReads == {None, Some(0), Some(1)}

\* current < 0.5
BelowHalf(v) == 2 * v < 1

\* one telemetry read (read_esc_telemetry and read_mav_arduino): the three
\* ESC lists and customfield4.  customfield0..3 and customfield5 are only
\* printed and are left out.
Snapshot(rp, cu, te, tc) == [rpms |-> rp, currents |-> cu, temps |-> te, total_curr |-> tc]

\* every ESC reporting the same values
Uniform(rpm, curr, tmp, tc) ==
    Snapshot([i \in ESCS |-> rpm], [i \in ESCS |-> curr], [i \in ESCS |-> tmp], tc)

\* the bench running exactly at stage k's expected values, ESCs at 40 degC
Nominal(k) ==
    Uniform(STAGES[k].expected_rpm, STAGES[k].expected_esc_curr, 40,
            STAGES[k].expected_total_curr)

\* no channel reported (getattr's default 0.0), and every channel NaN
AllZero == Uniform(0, 0, 0, 0)
AllNaN == Uniform(NaN, NaN, NaN, NaN)

Bases == {Nominal(k) : k \in 1..Len(STAGES)} \cup {AllZero, AllNaN}

SetRpm(s, i, v) == [s EXCEPT !.rpms[i] = v]
SetCurr(s, i, v) == [s EXCEPT !.currents[i] = v]
SetTemp(s, i, v) == [s EXCEPT !.temps[i] = v]
SetTotal(s, v) == [s EXCEPT !.total_curr = v]

\* readings around every threshold of the script
RpmVals == {NaN, 0, 1, 499, 500, 2449, 2450, 3149, 3150, 3500, 3850, 3851,
            4550, 4551, 4600, 4899, 4900, 7000, 9100, 9101}
TempVals == {NaN, -1, 0, 1, 19, 20, 29, 30, 50, 51, 60, 61, 79, 80, 85}
CurrVals == {NaN, 0, 6, 7, 8, 9, 11, 12, 13, 14, 20, 26, 27, 100, 101}
TotalVals == {NaN, 0, 55, 56, 71, 72, 88, 89, 100, 101, 104, 111, 112, 160, 208, 209}

\* s with one channel changed, or unchanged
Perturb(s, escs, rv, cv, tv, totv) ==
    {s} \cup {SetRpm(s, i, v) : i \in escs, v \in rv}
        \cup {SetCurr(s, i, v) : i \in escs, v \in cv}
        \cup {SetTemp(s, i, v) : i \in escs, v \in tv}
        \cup {SetTotal(s, v) : v \in totv}

\* a second change, on the first or the last ESC or on the total
Perturb2(s) ==
    Perturb(s, {1, NUM_ESC}, {NaN, 0, 499, 4600}, {NaN, 0, 12, 101},
            {NaN, 0, 61, 80, 85}, {NaN, 0, 101})

\* the elapsed times the evaluator is checked at: inside and past the grace
\* period of each stage, and at the end of the plan
EvalTimes == {0, 4, 5, 600, 604, 605, 1200, 1205, 1800}

\* the snapshots a run of the script can read at each tick: nominal at each
\* stage (with and without the bench total), nothing reported, NaN (on every
\* channel, and on every channel but the rpms), one snapshot for each rule
\* firing, and Stage 3 running at the bench's current limit
MainSnapshots ==
    { Nominal(1), Nominal(2), Nominal(3), AllZero, AllNaN,
      Uniform(0, NaN, NaN, NaN),
      SetTotal(Nominal(2), NaN), SetTotal(Nominal(3), NaN),
      SetRpm(Nominal(2), 1, 499), SetTemp(Nominal(2), 8, 80),
      SetCurr(Nominal(2), 3, 101), SetTotal(Nominal(2), 101),
      SetRpm(Nominal(2), 2, 3851), SetRpm(Nominal(2), 2, 4600),
      SetRpm(SetTotal(Nominal(3), NaN), 7, 0),
      SetTemp(Nominal(2), 4, 51), SetTemp(SetTotal(Nominal(3), NaN), 4, 61),
      SetCurr(Nominal(2), 5, 12), SetCurr(SetTotal(Nominal(3), NaN), 5, 27),
      SetTotal(Nominal(2), 89), SetTotal(Nominal(2), 55),
      SetTotal(Nominal(3), 100) }

\* the latest time get_stage_at_time is checked at (past the planned duration)
MaxTime == 1830

----------------------------------------------------------------------------
(* The script *)

Init ==
    /\ pc = "start"
    /\ current = None
    /\ lastRead = None
    /\ t = 0
    /\ stage_idx = 0
    /\ stage_elapsed = 0
    /\ rpms = AllZero.rpms
    /\ currents = AllZero.currents
    /\ temps = AllZero.temps
    /\ total_curr = AllZero.total_curr
    /\ findings = <<>>
    /\ aborted = FALSE
    /\ writes = <<>>
    /\ console = <<"=== X8 Motor Test (MP script) ===">>
    /\ nTicks = 0
    /\ nEvals = 0
    /\ nRereads = 0
    /\ loopExit = "none"
    /\ med_values = <<>>
    /\ med_result = None

\* the lines printed once the enable write is accepted; the second is
\* "Planned test duration: ~%d minutes." % (TOTAL_TEST_DURATION_SEC // 60)
EnabledLines ==
    << "SCR_USER4=1 (Lua test requested).",
       "Planned test duration: ~" \o ToString(TOTAL_TEST_DURATION_SEC \div 60) \o " minutes.",
       "To stop: set SCR_USER4=0 or let this script abort on anomaly." >>

\* "SCR_USER4 is 0, stopping script at t=%ds." % (t + 1)
StoppedLine(t_sec) == "SCR_USER4 is 0, stopping script at t=" \o ToString(t_sec + 1) \o "s."

\* which way the script goes on the first read of the flag
StartBranch_AlwaysEnable(r) == IF r = None THEN "read_error" ELSE "enable"

StartBranch(r) ==
    IF r = None THEN "read_error"
    ELSE IF BelowHalf(r[1]) THEN "enable"
    ELSE "toggle_off"

\* the script without "raise SystemExit" after the rejected write
AfterEnable_NoExit(ok) == "loop"

\* where the script is after Script.ChangeParam(TEST_PARAM_NAME, 1)
AfterEnable(ok) == IF ok THEN "loop" ELSE "exited"

\* The script up to the loop, and its else branch (the quick toggle off).
Start ==
    /\ pc = "start"
    /\ \E r \in FlagReads, ok \in BOOLEAN :
         /\ lastRead' = r
         /\ current' = r
         /\ CASE StartBranch(r) = "read_error" ->
                   /\ pc' = "exited"
                   /\ writes' = writes
                   /\ console' = Append(console, "ERROR: cannot read param SCR_USER4")
              [] StartBranch(r) = "enable" ->
                   /\ pc' = AfterEnable(ok)
                   /\ writes' = Append(writes, [val |-> 1, ok |-> ok, at |-> "start"])
                   /\ console' = console \o
                        (IF ok THEN EnabledLines
                         ELSE <<"ERROR: cannot set SCR_USER4 to 1">>)
              [] StartBranch(r) = "toggle_off" ->
                   /\ pc' = "done"
                   /\ writes' = Append(writes, [val |-> 0, ok |-> ok, at |-> "toggle"])
                   /\ console' = console \o
                        (IF ok THEN <<"SCR_USER4 was non-zero, set to 0. Test stop requested.">>
                         ELSE <<"ERROR: cannot set SCR_USER4 to 0">>)
                        \o <<"=== Script finished ===">>
    /\ UNCHANGED <<med_values, med_result>>
    /\ UNCHANGED <<t, stage_idx, stage_elapsed, rpms, currents, temps, total_curr,
                   findings, aborted, nTicks, nEvals, nRereads, loopExit>>

\* where the loop body goes after check_and_maybe_abort returned ret
AfterCheck(ret) == IF ret THEN "cleanup" ELSE "reread"

\* print_status_line formats int(rpms[i]); int() of a NaN raises ValueError,
\* which nothing catches: the script dies at the status line
StatusLineRaises(rp) == \E i \in ESCS : rp[i] = NaN

\* The call of check_and_maybe_abort on the values just read, and the break
\* that follows it.  An abort calls Script.ChangeParam, which succeeds or not.
Evaluation(sidx, elapsed, snap, after_abort, after_ok) ==
    LET res == check_and_maybe_abort(sidx, elapsed, snap.rpms, snap.currents,
                                     snap.temps, snap.total_curr)
    IN  /\ nEvals' = nEvals + 1
        /\ findings' = res.out
        /\ aborted' = res.ret
        /\ IF res.ret
           THEN /\ \E ok \in BOOLEAN :
                     /\ writes' = writes \o AbortWrites(ok)
                     /\ console' = console \o AbortConsole(ok)
                /\ loopExit' = "abort"
                /\ pc' = after_abort
           ELSE /\ writes' = writes
                /\ console' = console
                /\ loopExit' = loopExit
                /\ pc' = after_ok

\* One pass of the loop body up to Script.Sleep: resolve the stage, read the
\* telemetry, print the status line, evaluate.
Tick ==
    /\ pc = "loop"
    /\ \E snap \in MainSnapshots :
         LET st == get_stage_at_time(t)
         IN  /\ stage_idx' = st[1]
             /\ stage_elapsed' = st[2]
             /\ rpms' = snap.rpms
             /\ currents' = snap.currents
             /\ temps' = snap.temps
             /\ total_curr' = snap.total_curr
             /\ nTicks' = nTicks + 1
             /\ IF StatusLineRaises(snap.rpms)
                THEN /\ pc' = "crashed"
                     /\ loopExit' = "crashed"
                     /\ UNCHANGED <<findings, aborted, writes, console, nEvals>>
                ELSE Evaluation(st[1], st[2], snap, AfterCheck(TRUE), AfterCheck(FALSE))
    /\ UNCHANGED <<med_values, med_result>>
    /\ UNCHANGED <<current, lastRead, t, nRereads>>

\* range(TOTAL_TEST_DURATION_SEC + 1)
LoopHasNext_OneMore(t_sec) == t_sec + 1 <= TOTAL_TEST_DURATION_SEC

\* range(TOTAL_TEST_DURATION_SEC) has a value after t
LoopHasNext(t_sec) == t_sec + 1 < TOTAL_TEST_DURATION_SEC

\* which way the loop goes on the re-read of the flag
RereadBranch(r) ==
    IF r = None THEN "link_lost"
    ELSE IF BelowHalf(r[1]) THEN "stopped"
    ELSE "continue"

\* After Script.Sleep: the re-read of the flag, the two breaks, and the step
\* of the for loop.
Reread ==
    /\ pc = "reread"
    /\ \E r \in FlagReads :
         /\ lastRead' = r
         /\ current' = r
         /\ nRereads' = nRereads + 1
         /\ CASE RereadBranch(r) = "link_lost" ->
                   /\ pc' = "cleanup"
                   /\ loopExit' = "link_lost"
                   /\ console' = Append(console, "WARNING: cannot read SCR_USER4, exiting script loop.")
                   /\ t' = t
              [] RereadBranch(r) = "stopped" ->
                   /\ pc' = "cleanup"
                   /\ loopExit' = "stopped"
                   /\ console' = Append(console, StoppedLine(t))
                   /\ t' = t
              [] RereadBranch(r) = "continue" /\ LoopHasNext(t) ->
                   /\ pc' = "loop"
                   /\ loopExit' = loopExit
                   /\ console' = console
                   /\ t' = t + 1
              [] RereadBranch(r) = "continue" /\ ~LoopHasNext(t) ->
                   /\ pc' = "cleanup"
                   /\ loopExit' = "exhausted"
                   /\ console' = console
                   /\ t' = t
    /\ UNCHANGED <<med_values, med_result>>
    /\ UNCHANGED <<stage_idx, stage_elapsed, rpms, currents, temps, total_curr,
                   findings, aborted, writes, nTicks, nEvals>>

\* Script.GetParam(TEST_PARAM_NAME) or 1
OrZero_OrOne(r) == IF r = None \/ r = Some(0) THEN 1 ELSE r[1]

\* Script.GetParam(TEST_PARAM_NAME) or 0
OrZero(r) == IF r = None THEN 0 ELSE r[1]

\* The end of the script: the last read, the write it may make, the last line.
Cleanup ==
    /\ pc = "cleanup"
    /\ \E r \in FlagReads, ok \in BOOLEAN :
         /\ lastRead' = r
         /\ current' = Some(OrZero(r))
         /\ IF ~BelowHalf(OrZero(r))
            THEN /\ writes' = Append(writes, [val |-> 0, ok |-> ok, at |-> "cleanup"])
                 /\ console' = console \o
                      (IF ok THEN <<"Test ended: SCR_USER4 set to 0.">>
                       ELSE <<"WARNING: cannot set SCR_USER4 to 0, check params.">>)
                      \o <<"=== Script finished ===">>
            ELSE /\ writes' = writes
                 /\ console' = console \o <<"Test ended: SCR_USER4 was already 0.",
                                            "=== Script finished ===">>
    /\ pc' = "done"
    /\ UNCHANGED <<med_values, med_result>>
    /\ UNCHANGED <<t, stage_idx, stage_elapsed, rpms, currents, temps, total_curr,
                   findings, aborted, nTicks, nEvals, nRereads, loopExit>>

Next == Start \/ Tick \/ Reread \/ Cleanup

Spec == Init /\ [][Next]_vars

----------------------------------------------------------------------------
(* get_stage_at_time on its own: every time up to MaxTime *)

InitResolve ==
    /\ pc = "resolve"
    /\ t \in 0..MaxTime
    /\ current = None
    /\ lastRead = None
    /\ stage_idx = 0
    /\ stage_elapsed = 0
    /\ rpms = AllZero.rpms
    /\ currents = AllZero.currents
    /\ temps = AllZero.temps
    /\ total_curr = AllZero.total_curr
    /\ findings = <<>>
    /\ aborted = FALSE
    /\ writes = <<>>
    /\ console = <<>>
    /\ nTicks = 0
    /\ nEvals = 0
    /\ nRereads = 0
    /\ loopExit = "none"
    /\ med_values = <<>>
    /\ med_result = None

Resolve ==
    /\ pc = "resolve"
    /\ stage_idx' = get_stage_at_time(t)[1]
    /\ stage_elapsed' = get_stage_at_time(t)[2]
    /\ pc' = "resolved"
    /\ UNCHANGED <<med_values, med_result>>
    /\ UNCHANGED <<current, lastRead, t, rpms, currents, temps, total_curr, findings,
                   aborted, writes, console, nTicks, nEvals, nRereads, loopExit>>

NextResolve == Resolve

SpecResolve == InitResolve /\ [][NextResolve]_vars

----------------------------------------------------------------------------
(* One evaluation on its own: a time of EvalTimes and a snapshot that is    *)
(* a base snapshot with up to two channels changed                         *)

InitEval ==
    /\ pc = "evaluate"
    /\ t \in EvalTimes
    /\ \E b \in Bases :
       \E s1 \in Perturb(b, ESCS, RpmVals, CurrVals, TempVals, TotalVals) :
       \E snap \in Perturb2(s1) :
         /\ rpms = snap.rpms
         /\ currents = snap.currents
         /\ temps = snap.temps
         /\ total_curr = snap.total_curr
    /\ current = Some(1)
    /\ lastRead = Some(1)
    /\ stage_idx = 0
    /\ stage_elapsed = 0
    /\ findings = <<>>
    /\ aborted = FALSE
    /\ writes = <<>>
    /\ console = <<>>
    /\ nTicks = 0
    /\ nEvals = 0
    /\ nRereads = 0
    /\ loopExit = "none"
    /\ med_values = <<>>
    /\ med_result = None

\* check_and_maybe_abort applied to the stage of t and the snapshot
Evaluate ==
    /\ pc = "evaluate"
    /\ LET st == get_stage_at_time(t)
       IN  /\ stage_idx' = st[1]
           /\ stage_elapsed' = st[2]
           /\ Evaluation(st[1], st[2], Snapshot(rpms, currents, temps, total_curr),
                         "evaluated", "evaluated")
    /\ UNCHANGED <<med_values, med_result>>
    /\ UNCHANGED <<current, lastRead, t, rpms, currents, temps, total_curr,
                   nTicks, nRereads>>

NextEval == Evaluate

SpecEval == InitEval /\ [][NextEval]_vars

----------------------------------------------------------------------------
(* median on its own: every list of at most MaxLen readings of MedVals *)

\* the longest list median is checked on
MaxLen == 4

\* temperatures of the lists, and NaN
MedVals == {NaN, 70, 72, 75}

MedLists == UNION {[1..n -> MedVals] : n \in 0..MaxLen}

InitMedian ==
    /\ pc = "median"
    /\ med_values \in MedLists
    /\ med_result = None
    /\ current = None
    /\ lastRead = None
    /\ t = 0
    /\ stage_idx = 0
    /\ stage_elapsed = 0
    /\ rpms = AllZero.rpms
    /\ currents = AllZero.currents
    /\ temps = AllZero.temps
    /\ total_curr = AllZero.total_curr
    /\ findings = <<>>
    /\ aborted = FALSE
    /\ writes = <<>>
    /\ console = <<>>
    /\ nTicks = 0
    /\ nEvals = 0
    /\ nRereads = 0
    /\ loopExit = "none"

Median ==
    /\ pc = "median"
    /\ med_result' = median(med_values)
    /\ pc' = "median_done"
    /\ UNCHANGED <<med_values, current, lastRead, t, stage_idx, stage_elapsed, rpms,
                   currents, temps, total_curr, findings, aborted, writes, console,
                   nTicks, nEvals, nRereads, loopExit>>

NextMedian == Median

SpecMedian == InitMedian /\ [][NextMedian]_vars

----------------------------------------------------------------------------
(* Properties *)

Last(seq) == seq[Len(seq)]
HasAbort(f) == \E k \in 1..Len(f) : f[k].sev = "ABORT"
WroteZero(w) == \E k \in 1..Len(w) : w[k].val = 0
TheSnapshot == Snapshot(rpms, currents, temps, total_curr)
\* stage_idx of the stage whose expected rpm is 3500
Stage2 == CHOOSE k \in 0..(Len(STAGES) - 1) : STAGES[k + 1].expected_rpm = 3500

\* C1: a tick whose evaluation prints an ABORT line calls ChangeParam(.., 0)
\* once in that same step and leaves the loop, whatever the call returns; after
\* an abort no telemetry is read and nothing is evaluated; no ABORT line exists
\* without a write of 0.
C1_AbortStopsAtOnce ==
    [][ /\ (nEvals' = nEvals + 1 /\ HasAbort(findings')) =>
              /\ Len(writes') = Len(writes) + 1
              /\ Last(writes').val = 0
              /\ Last(writes').at = "abort"
              /\ pc' \notin {"loop", "reread"}
        /\ loopExit = "abort" =>
              /\ nTicks' = nTicks
              /\ nEvals' = nEvals
              /\ findings' = findings
              /\ pc' \notin {"loop", "reread"}
        /\ HasAbort(findings') => WroteZero(writes')
      ]_vars

\* an aborted run whose stop write was rejected, finished
C1_Witness ==
    /\ pc = "done"
    /\ loopExit = "abort"
    /\ HasAbort(findings)
    /\ \E k \in 1..Len(writes) : writes[k] = [val |-> 0, ok |-> FALSE, at |-> "abort"]

\* cumulative start of stage i (1-based): the durations before it
CumStart(i) == SumDurations(i - 1)

\* C2: for 0 <= t < total duration get_stage_at_time(t) is (i, t - start_i)
\* for the one stage i with start_i <= t < end_i; for t >= total duration it
\* is the last stage with the last stage's duration.
C2_StageResolution ==
    pc = "resolved" =>
        IF t < TOTAL_TEST_DURATION_SEC
        THEN \E i \in 1..Len(STAGES) :
                /\ CumStart(i) <= t /\ t < CumStart(i + 1)
                /\ \A j \in 1..Len(STAGES) :
                      (CumStart(j) <= t /\ t < CumStart(j + 1)) => j = i
                /\ stage_idx = i - 1
                /\ stage_elapsed = t - CumStart(i)
        ELSE /\ stage_idx = Len(STAGES) - 1
             /\ stage_elapsed = STAGES[Len(STAGES)].duration_sec

\* the first second past the plan, resolved to the last stage, saturated
C2_Witness ==
    /\ pc = "resolved"
    /\ t = TOTAL_TEST_DURATION_SEC
    /\ stage_idx = 2
    /\ stage_elapsed = 600

\* C3: in the stage expecting 3500 rpm, past the grace period, an ESC rpm of
\* exactly 0 with every other channel nominal prints nothing and does not abort.
C3_ZeroRpmIsNoData ==
    (/\ pc = "evaluated"
     /\ stage_idx = Stage2
     /\ PastGrace(stage_elapsed)
     /\ \E i \in ESCS : TheSnapshot = SetRpm(Nominal(2), i, 0))
    => (~aborted /\ findings = <<>>)

\* C4 as stated: in the stage expecting 3500 rpm, past the grace period, other
\* channels nominal, an ESC rpm of 3850 prints exactly one WARN for that ESC
\* and no ABORT, and an ESC rpm of 4600 prints exactly one ABORT.
C4_AsStated ==
    (pc = "evaluated" /\ stage_idx = Stage2 /\ PastGrace(stage_elapsed)) =>
        \A i \in ESCS :
            /\ TheSnapshot = SetRpm(Nominal(2), i, 3850) =>
                  (~aborted /\ findings = <<Finding("WARN", "rpm_expect", i)>>)
            /\ TheSnapshot = SetRpm(Nominal(2), i, 4600) =>
                  (aborted /\ findings = <<Finding("ABORT", "rpm_expect", i)>>)

\* the rules evaluated after rpm-vs-expected
LaterRules == {"temp_median", "curr_expect", "total_expect"}

\* C4 amended: same setting; an ESC rpm of 3850 (exactly 10% over) prints
\* nothing, an ESC rpm of 3851 prints exactly one WARN for that ESC and no
\* ABORT, an ESC rpm of 4600 prints exactly one ABORT; and whenever the
\* rpm-vs-expected rule aborts, its ABORT is the last line: no later rule and
\* no later ESC contributes.
C4_RpmWarnIsStrict ==
    (pc = "evaluated" /\ stage_idx = Stage2 /\ PastGrace(stage_elapsed)) =>
        /\ \A i \in ESCS :
            /\ TheSnapshot = SetRpm(Nominal(2), i, 3850) =>
                  (~aborted /\ findings = <<>>)
            /\ TheSnapshot = SetRpm(Nominal(2), i, 3851) =>
                  (~aborted /\ findings = <<Finding("WARN", "rpm_expect", i)>>)
            /\ TheSnapshot = SetRpm(Nominal(2), i, 4600) =>
                  (aborted /\ findings = <<Finding("ABORT", "rpm_expect", i)>>)
        /\ (aborted /\ Last(findings).rule = "rpm_expect") =>
              \A k \in 1..Len(findings) :
                  /\ findings[k].rule \notin LaterRules
                  /\ findings[k].esc <= Last(findings).esc
                  /\ findings[k].sev = "ABORT" => k = Len(findings)

\* rpm 3850 on ESC 3, everything else nominal, evaluated past the grace period
C4_Witness ==
    /\ pc = "evaluated"
    /\ stage_idx = Stage2
    /\ PastGrace(stage_elapsed)
    /\ TheSnapshot = SetRpm(Nominal(2), 3, 3850)
    /\ findings = <<>>

\* ESC i reports a temperature of at least 80
Hot(i) == temps[i] # NaN /\ temps[i] >= 80

\* every channel but the hot temperatures is at some stage's expected value
OthersNominal ==
    \E k \in 1..Len(STAGES) :
        /\ rpms = Nominal(k).rpms
        /\ currents = Nominal(k).currents
        /\ total_curr = Nominal(k).total_curr
        /\ \A i \in ESCS : Hot(i) \/ temps[i] = Nominal(k).temps[i]

\* C5: in every stage and at every elapsed time, a snapshot with an ESC
\* temperature >= 80 aborts, whatever the other channels hold; with the other
\* channels nominal the one line printed is the over-temperature ABORT of the
\* lowest such ESC.  80 itself aborts.
C5_CriticalTempAborts ==
    (pc = "evaluated" /\ \E i \in ESCS : Hot(i)) =>
        /\ aborted
        /\ Last(findings).sev = "ABORT"
        /\ Last(writes) = [val |-> 0, ok |-> Last(writes).ok, at |-> "abort"]
        /\ OthersNominal =>
              \E i \in ESCS :
                  /\ Hot(i)
                  /\ \A j \in ESCS : Hot(j) => i <= j
                  /\ findings = <<Finding("ABORT", "over_temp", i)>>

\* inside the grace period of stage 1: ESC 8 at exactly 80, ESC 1 at 85,
\* everything else nominal for stage 2
C5_Witness ==
    /\ pc = "evaluated"
    /\ stage_idx = 0
    /\ ~PastGrace(stage_elapsed)
    /\ TheSnapshot = SetTemp(SetTemp(Nominal(2), 1, 85), NUM_ESC, 80)
    /\ findings = <<Finding("ABORT", "over_temp", 1)>>

\* the first ChangeParam of the run was the write of 1 and was rejected
EnableRejected ==
    Len(writes) >= 1 /\ writes[1] = [val |-> 1, ok |-> FALSE, at |-> "start"]

\* C6: when the first write of 1 is rejected the script never runs the loop:
\* no telemetry read, no evaluation, no re-read, no further write, and it ends
\* on the startup error without reaching its last line.
C6_RejectedEnableNeverRuns ==
    EnableRejected =>
        /\ pc = "exited"
        /\ nTicks = 0
        /\ nEvals = 0
        /\ nRereads = 0
        /\ findings = <<>>
        /\ Len(writes) = 1
        /\ Last(console) = "ERROR: cannot set SCR_USER4 to 1"

C6_Witness ==
    /\ EnableRejected
    /\ pc = "exited"
    /\ lastRead = Some(0)

\* C7: after the loop has ended the script finishes only once the flag was
\* read back below 0.5 or a write of 0 was attempted; it never reports
\* "was already 0" without having read a value below 0.5.
C7_FlagEnsuredOff ==
    (pc = "done" /\ loopExit # "none") =>
        /\ (lastRead # None /\ BelowHalf(lastRead[1])) \/ WroteZero(writes)
        /\ (\E k \in 1..Len(console) : console[k] = "Test ended: SCR_USER4 was already 0.")
              => (lastRead # None /\ BelowHalf(lastRead[1]))

\* the writes made by the final cleanup
CleanupWrites == SelectSeq(writes, LAMBDA w : w.at = "cleanup")

\* C8 as stated: once the in-loop re-read was unavailable the script attempts
\* no write of the flag, whatever later reads return.
C8_AsStated ==
    loopExit = "link_lost" => Len(writes) = 1

\* C8 amended: once the in-loop re-read was unavailable the loop has ended (no
\* further tick, no further re-read), and the script then writes 0 exactly when
\* its final read returns a value >= 0.5: no write when the final read is
\* unavailable or below 0.5.
C8_LinkLostEndsLoop ==
    loopExit = "link_lost" =>
        /\ pc \in {"cleanup", "done"}
        /\ nTicks = t + 1
        /\ nEvals = nTicks
        /\ nRereads = nTicks
        /\ ~aborted
        /\ pc = "cleanup" => Len(writes) = 1
        /\ pc = "done" =>
              IF lastRead # None /\ ~BelowHalf(lastRead[1])
              THEN Len(writes) = 2 /\ writes[2].val = 0 /\ writes[2].at = "cleanup"
              ELSE Len(writes) = 1

\* link lost at the re-read, flag readable and still on at the end, 0 written
C8_Witness ==
    /\ pc = "done"
    /\ loopExit = "link_lost"
    /\ lastRead = Some(1)
    /\ Len(CleanupWrites) = 1

\* C9: every tick that does not abort re-reads the flag once, and the loop
\* starts a further tick only when that re-read was available and >= 0.5: once
\* a re-read is below 0.5 there is no further telemetry read or evaluation.
\* A tick is a pass of the loop body, counted at its telemetry read.
C9_StopBeforeNextRead ==
    /\ pc = "loop" => nRereads = nTicks /\ nTicks = t
    /\ (pc = "loop" /\ nTicks > 0) => (lastRead # None /\ ~BelowHalf(lastRead[1]))
    /\ pc = "reread" => nRereads = nTicks - 1 /\ ~aborted
    /\ pc \in {"cleanup", "done", "crashed"} =>
          nRereads = nTicks - (IF loopExit = "abort" THEN 1 ELSE 0)
    /\ loopExit = "stopped" =>
          /\ pc \in {"cleanup", "done"}
          /\ nTicks = t + 1
          /\ nEvals = t + 1
          /\ ~aborted

\* C10 as stated: the loop does not end because the planned duration is
\* reached.
C10_AsStated ==
    loopExit # "exhausted"

\* C10 amended: with no abort, no stop and no lost link the loop ends at the
\* planned duration: its last tick is t = TOTAL_TEST_DURATION_SEC - 1, no tick
\* is made at or past TOTAL_TEST_DURATION_SEC (so the stage context is never
\* the saturated one), and the script goes on to its final cleanup.
C10_LoopEndsAtPlan ==
    /\ t < TOTAL_TEST_DURATION_SEC
    /\ nTicks <= TOTAL_TEST_DURATION_SEC
    /\ stage_elapsed < STAGES[stage_idx + 1].duration_sec
    /\ loopExit = "exhausted" =>
          /\ pc \in {"cleanup", "done"}
          /\ t = TOTAL_TEST_DURATION_SEC - 1
          /\ nTicks = TOTAL_TEST_DURATION_SEC
          /\ nEvals = TOTAL_TEST_DURATION_SEC
          /\ nRereads = TOTAL_TEST_DURATION_SEC
          /\ ~aborted
    /\ (pc = "loop" /\ nTicks > 0) => loopExit = "none"

\* the planned duration ran out and the script finished
C10_Witness ==
    /\ pc = "done"
    /\ loopExit = "exhausted"
    /\ nTicks = TOTAL_TEST_DURATION_SEC

\* the Script.ChangeParam(TEST_PARAM_NAME, 0) calls made at one place, all of
\* them, and the rejected ones
WritesAt(place) == SelectSeq(writes, LAMBDA w : w.at = place)
ZeroWrites == SelectSeq(writes, LAMBDA w : w.val = 0)
RejectedZeroWrites == SelectSeq(writes, LAMBDA w : w.val = 0 /\ ~w.ok)

\* the lines that tell the operator that the flag could not be set to 0
CannotSetZeroLines ==
    SelectSeq(console, LAMBDA l : l \in {"WARNING: cannot set SCR_USER4 to 0, check params.",
                                          "ERROR: cannot set SCR_USER4 to 0"})

\* C11: a failed disable write is neither silent nor retried.  The tick that
\* aborts attempts the write of 0 exactly once; a whole run attempts at most
\* two writes of 0, the abort's and the final cleanup's, the cleanup's only
\* when the final read of the flag is >= 0.5; and each rejected write of 0 has
\* put one "cannot set SCR_USER4 to 0" line on the console.
C11_DisableWriteOnceAndLoud ==
    /\ Len(WritesAt("abort")) = (IF loopExit = "abort" THEN 1 ELSE 0)
    /\ Len(WritesAt("cleanup")) <= 1
    /\ Len(ZeroWrites) <= 2
    /\ Len(ZeroWrites) = Len(WritesAt("abort")) + Len(WritesAt("cleanup"))
                             + Len(WritesAt("toggle"))
    /\ WritesAt("toggle") # <<>> => Len(ZeroWrites) = 1 /\ nTicks = 0
    /\ WritesAt("cleanup") # <<>> =>
          /\ pc = "done"
          /\ lastRead # None
          /\ ~BelowHalf(lastRead[1])
          /\ Last(writes).at = "cleanup"
    /\ Len(CannotSetZeroLines) = Len(RejectedZeroWrites)
    /\ (writes # <<>> /\ Last(writes).val = 0 /\ ~Last(writes).ok /\ pc # "done") =>
          Last(console) = "WARNING: cannot set SCR_USER4 to 0, check params."

\* the abort's write of 0 and the cleanup's write of 0 were both rejected, and
\* both were reported
C11_Witness ==
    /\ pc = "done"
    /\ loopExit = "abort"
    /\ Len(RejectedZeroWrites) = 2
    /\ Len(CannotSetZeroLines) = 2

\* C12: a current of exactly 0 (the default of a channel that is not there) is
\* no data for the current-vs-expected checks: no finding of the ESC-current
\* rule names an ESC whose current is 0, the total-current rule has no finding
\* when the total is 0, and a tick whose channels all read 0 does not abort.
C12_ZeroCurrentIsNoData ==
    pc = "evaluated" =>
        /\ \A k \in 1..Len(findings) :
              /\ findings[k].rule = "curr_expect" => currents[findings[k].esc] # 0
              /\ findings[k].rule = "total_expect" => total_curr # 0
        /\ TheSnapshot = AllZero => ~aborted

\* the readings of med_values that are numbers, and how many of them are
\* below, or not above, v
MedNumbers == {k \in 1..Len(med_values) : med_values[k] # NaN}
MedBelow(v) == Cardinality({k \in MedNumbers : med_values[k] < v})
MedUpTo(v) == Cardinality({k \in MedNumbers : med_values[k] <= v})

\* C13 as stated: the median of [70, 72, 75] is 72 and the median of the
\* even-count list [70, 72] is its lower-middle element 70.
C13_AsStated ==
    pc = "median_done" =>
        /\ med_values = <<70, 72, 75>> => med_result = Some(72)
        /\ med_values = <<70, 72>> => med_result = Some(70)

\* C13 amended: the median of a list with at least one number is a number of
\* the list, the one at 0-based position n \div 2 of the ascending order of its
\* n numbers, never an average: the middle one for odd n
\* (median([70, 72, 75]) = 72) and the upper-middle one for even n
\* (median([70, 72]) = 72); a list with no number has median None.
C13_MedianIsUpperMiddle ==
    pc = "median_done" =>
        /\ MedNumbers = {} <=> med_result = None
        /\ MedNumbers # {} =>
              /\ \E k \in MedNumbers : med_result = Some(med_values[k])
              /\ MedBelow(med_result[1]) <= Cardinality(MedNumbers) \div 2
              /\ MedUpTo(med_result[1]) > Cardinality(MedNumbers) \div 2
        /\ med_values = <<70, 72, 75>> => med_result = Some(72)
        /\ med_values = <<75, 70, 72>> => med_result = Some(72)
        /\ med_values = <<70, 72>> => med_result = Some(72)
        /\ med_values = <<72, 70>> => med_result = Some(72)
        /\ med_values = <<>> => med_result = None

\* the median of the even-count list [70, 72] was taken
C13_Witness ==
    /\ pc = "median_done"
    /\ med_values = <<70, 72>>
    /\ med_result = Some(72)

\* The checks of one evaluation, each decided on its own from the readings,
\* the stage and the elapsed time: the severity the check (rule, ESC i) has
\* when it is looked at in isolation.  i is 0 for the two total-current rules.
ExpectSeverity(m, e, abortPct, warnPct) ==
    IF m = NaN \/ e <= 0 THEN "NONE"
    ELSE IF 100 * Abs(m - e) > abortPct * e THEN "ABORT"
    ELSE IF 100 * Abs(m - e) > warnPct * e THEN "WARN"
    ELSE "NONE"

\* the ESCs whose temperature is a number above 0, and their median: the value
\* with at most n \div 2 of the n temperatures below it and more than n \div 2
\* not above it
WarmEscs == {i \in ESCS : temps[i] # NaN /\ temps[i] > 0}
WarmBelow(v) == Cardinality({i \in WarmEscs : temps[i] < v})
WarmUpTo(v) == Cardinality({i \in WarmEscs : temps[i] <= v})
WarmMedian ==
    CHOOSE v \in {temps[i] : i \in WarmEscs} :
        /\ WarmBelow(v) <= Cardinality(WarmEscs) \div 2
        /\ WarmUpTo(v) > Cardinality(WarmEscs) \div 2

TempSeverity(i, med) ==
    IF temps[i] = NaN \/ temps[i] <= 0 THEN "NONE"
    ELSE IF Abs(temps[i] - med) > 20 THEN "ABORT"
    ELSE IF Abs(temps[i] - med) > 10 THEN "WARN"
    ELSE "NONE"

Severity(rule, i, med) ==
    LET stage == STAGES[stage_idx + 1]
        hit(b) == IF b THEN "ABORT" ELSE "NONE"
    IN  CASE rule = "low_rpm" ->
                 hit(stage_elapsed >= 5 /\ rpms[i] # NaN /\ 0 < rpms[i] /\ rpms[i] < 500)
          [] rule = "over_temp" -> hit(temps[i] # NaN /\ temps[i] >= 80)
          [] rule = "esc_over_curr" -> hit(currents[i] # NaN /\ currents[i] > 100)
          [] rule = "total_over_curr" -> hit(total_curr # NaN /\ total_curr > 100)
          [] rule = "rpm_expect" ->
                 IF stage_elapsed >= 5
                 THEN ExpectSeverity(rpms[i], stage.expected_rpm, 30, 10) ELSE "NONE"
          [] rule = "temp_median" -> TempSeverity(i, med)
          [] rule = "curr_expect" ->
                 ExpectSeverity(currents[i], stage.expected_esc_curr, 30, 10)
          [] rule = "total_expect" ->
                 ExpectSeverity(total_curr, stage.expected_total_curr, 30, 10)

\* the fixed order: rule by rule, ESCs ascending inside a rule
RuleOrder == <<"low_rpm", "over_temp", "esc_over_curr", "total_over_curr",
               "rpm_expect", "temp_median", "curr_expect", "total_expect">>
PerEsc(rule) == rule \notin {"total_over_curr", "total_expect"}
RuleChecks(rule, med) ==
    IF PerEsc(rule) THEN [i \in 1..NUM_ESC |-> Finding(Severity(rule, i, med), rule, i)]
    ELSE <<Finding(Severity(rule, 0, med), rule, 0)>>

RECURSIVE ChecksFrom(_, _)
ChecksFrom(r, med) ==
    IF r > Len(RuleOrder) THEN <<>>
    ELSE RuleChecks(RuleOrder[r], med) \o ChecksFrom(r + 1, med)

\* every finding of the full ordered scan, and the scan cut after its first
\* Abort
FullScan ==
    LET med == IF WarmEscs = {} THEN 0 ELSE WarmMedian
    IN  SelectSeq(ChecksFrom(1, med), LAMBDA f : f.sev # "NONE")
AbortPositions(f) == {k \in 1..Len(f) : f[k].sev = "ABORT"}
CutAfterFirstAbort(f) ==
    LET at == AbortPositions(f)
    IN  IF at = {} THEN f ELSE SubSeq(f, 1, CHOOSE k \in at : \A j \in at : k <= j)

\* C14: evaluation is fail-fast in one fixed order.  The findings of an
\* evaluation are the findings of the full ordered scan (low-rpm,
\* over-temperature, ESC over-current, total over-current, rpm-vs-expected,
\* temperature-vs-median, ESC-current-vs-expected, total-current-vs-expected,
\* ESCs ascending inside each rule) cut right after the first Abort: at most
\* one Abort, which is the last finding and the earliest abort condition of
\* the order, preceded by exactly the Warnings that come before it.
C14_FailFastInFixedOrder ==
    pc = "evaluated" =>
        LET full == FullScan
        IN  /\ findings = CutAfterFirstAbort(full)
            /\ aborted = (AbortPositions(full) # {})
            /\ Cardinality(AbortPositions(findings)) <= 1
            /\ aborted => AbortPositions(findings) = {Len(findings)}

\* several abort conditions held at once behind a Warning: the Warning and
\* the first Abort are the findings
C14_Witness ==
    /\ pc = "evaluated"
    /\ Cardinality(AbortPositions(FullScan)) > 1
    /\ Len(findings) = 2
    /\ findings[1].sev = "WARN"
    /\ findings[2].sev = "ABORT"

\* the two rules that look at rpm, and the ESCs that turn slowly
RpmRules == {"low_rpm", "rpm_expect"}
Stalled == {i \in ESCS : rpms[i] # NaN /\ 0 < rpms[i] /\ rpms[i] < 500}
LowestOf(S) == CHOOSE i \in S : \A j \in S : i <= j

\* some check that does not look at rpm has its abort condition met
OtherAbortCondition ==
    LET med == IF WarmEscs = {} THEN 0 ELSE WarmMedian
    IN  \/ \E rule \in {"over_temp", "esc_over_curr", "temp_median", "curr_expect"} :
              \E i \in ESCS : Severity(rule, i, med) = "ABORT"
        \/ \E rule \in {"total_over_curr", "total_expect"} : Severity(rule, 0, med) = "ABORT"

\* C15: the ramp-up gate.  While stage_elapsed < 5 no finding is about rpm,
\* whatever the rpm values, and the temperature, ESC-current and total-current
\* checks still decide the tick; from stage_elapsed = 5 on, an ESC with
\* 0 < rpm < 500 aborts the tick (the lowest such ESC is the one reported).
\* The gate restarts at every stage change, stage_elapsed being the time since
\* the start of the stage.
C15_RampUpGate ==
    pc = "evaluated" =>
        /\ t < TOTAL_TEST_DURATION_SEC => stage_elapsed = t - CumStart(stage_idx + 1)
        /\ stage_elapsed < 5 =>
              /\ \A k \in 1..Len(findings) : findings[k].rule \notin RpmRules
              /\ aborted = OtherAbortCondition
        /\ (stage_elapsed >= 5 /\ Stalled # {}) =>
              /\ aborted
              /\ findings = <<Finding("ABORT", "low_rpm", LowestOf(Stalled))>>

\* four seconds into Stage 2 an ESC turns at 499 rpm and another is at 80 degC
\* or more: the tick aborts on the temperature and says nothing about rpm
C15_Witness ==
    /\ pc = "evaluated"
    /\ stage_idx = Stage2
    /\ stage_elapsed = 4
    /\ rpms[1] = 499
    /\ Hot(NUM_ESC)
    /\ findings = <<Finding("ABORT", "over_temp", NUM_ESC)>>

\* the place of a check in the fixed order, and whether the evaluation got
\* to the check (rule, ESC i): nothing before it aborted
RulePos(rule) == CHOOSE k \in 1..Len(RuleOrder) : RuleOrder[k] = rule
Reached(rule, i) ==
    \/ ~aborted
    \/ RulePos(Last(findings).rule) > RulePos(rule)
    \/ Last(findings).rule = rule /\ Last(findings).esc >= i
Flagged(sev, rule, i) == \E k \in 1..Len(findings) : findings[k] = Finding(sev, rule, i)

\* C16: the temperature-vs-median rule.  The median is the one of the ESC
\* temperatures that are > 0; an ESC at <= 0 is never flagged by the rule; an
\* ESC at > 0 that the evaluation gets to is flagged Abort iff
\* |temp - median| > 20 and Warning iff 10 < |temp - median| <= 20; with no
\* temperature > 0 the rule has no finding.
C16_TempVsMedian ==
    pc = "evaluated" =>
        /\ \A k \in 1..Len(findings) :
              findings[k].rule = "temp_median" =>
                  /\ findings[k].esc \in WarmEscs
                  /\ findings[k].sev = TempSeverity(findings[k].esc, WarmMedian)
        /\ \A i \in WarmEscs :
              Reached("temp_median", i) =>
                  LET adiff == Abs(temps[i] - WarmMedian)
                  IN  /\ Flagged("ABORT", "temp_median", i) <=> adiff > 20
                      /\ Flagged("WARN", "temp_median", i) <=> (10 < adiff /\ adiff <= 20)

\* two ESCs report a temperature, the others report 0: the median is taken
\* over the two, and the one more than 20 degC away from it aborts the tick
C16_Witness ==
    /\ pc = "evaluated"
    /\ Cardinality(WarmEscs) = 2
    /\ \E i \in ESCS : temps[i] = 0
    /\ \E i \in WarmEscs : /\ Abs(temps[i] - WarmMedian) > 20
                           /\ findings = <<Finding("ABORT", "temp_median", i)>>

\* the deviation of m from e > 0 in hundredths of e, compared without
\* dividing: |m - e| / e > p / 100
DeviatesOver(m, e, p) == 100 * Abs(m - e) > p * e

\* what the check (rule, i) reported, if anything
ReportedFor(rule, i) ==
    IF Flagged("ABORT", rule, i) THEN "ABORT"
    ELSE IF Flagged("WARN", rule, i) THEN "WARN"
    ELSE "NONE"

\* the class of a measured current m against the expected current e > 0
CurrentClass(m, e) ==
    IF m = NaN THEN "NONE"
    ELSE IF DeviatesOver(m, e, 30) THEN "ABORT"
    ELSE IF DeviatesOver(m, e, 10) THEN "WARN"
    ELSE "NONE"

\* C17: the current-vs-expected rules.  When nothing before the check aborted
\* and the stage expects an ESC current e > 0, an ESC current m is flagged
\* Abort iff |m - e| / e > 0.30 and Warning iff 0.10 < |m - e| / e <= 0.30, so
\* a deviation of exactly 10% is not flagged and one of exactly 30% is a
\* Warning; the total current is classified the same way against the stage's
\* expected total; and a rule whose expected value is 0 has no finding.
C17_CurrentVsExpected ==
    pc = "evaluated" =>
        LET e == STAGES[stage_idx + 1].expected_esc_curr
            et == STAGES[stage_idx + 1].expected_total_curr
        IN  /\ e > 0 =>
                  \A i \in ESCS :
                      Reached("curr_expect", i) =>
                          ReportedFor("curr_expect", i) = CurrentClass(currents[i], e)
            /\ (et > 0 /\ Reached("total_expect", 0)) =>
                  ReportedFor("total_expect", 0) = CurrentClass(total_curr, et)
            /\ e = 0 => \A k \in 1..Len(findings) : findings[k].rule # "curr_expect"
            /\ et = 0 => \A k \in 1..Len(findings) : findings[k].rule # "total_expect"
            /\ \A i \in ESCS :
                  (e > 0 /\ Reached("curr_expect", i) /\ currents[i] # NaN) =>
                      /\ 10 * Abs(currents[i] - e) = e => ReportedFor("curr_expect", i) = "NONE"
                      /\ 10 * Abs(currents[i] - e) = 3 * e =>
                            ReportedFor("curr_expect", i) = "WARN"

\* an ESC current exactly 30% over the expected one is a Warning, and the
\* evaluation goes on to the total current
C17_Witness ==
    /\ pc = "evaluated"
    /\ ~aborted
    /\ STAGES[stage_idx + 1].expected_esc_curr > 0
    /\ \E i \in ESCS :
          /\ currents[i] # NaN
          /\ 10 * (currents[i] - STAGES[stage_idx + 1].expected_esc_curr)
                 = 3 * STAGES[stage_idx + 1].expected_esc_curr
          /\ Flagged("WARN", "curr_expect", i)

\* the lines the end of the script prints, once per run of the final cleanup
FinishedLines == SelectSeq(console, LAMBDA l : l = "=== Script finished ===")

\* C18: every run ends.  The monitoring loop makes at most
\* TOTAL_TEST_DURATION_SEC ticks, with t from 0 to
\* TOTAL_TEST_DURATION_SEC - 1; it ends at the first abort, unavailable
\* re-read, re-read below 0.5, or when the planned duration is used up; and
\* once it has ended the final cleanup runs, exactly once.
C18_LoopEndsThenCleanup ==
    /\ t \in 0..(TOTAL_TEST_DURATION_SEC - 1)
    /\ nTicks <= TOTAL_TEST_DURATION_SEC
    /\ (nTicks > 0 /\ pc \notin {"loop", "reread"}) =>
          /\ loopExit \in {"abort", "link_lost", "stopped", "exhausted"}
          /\ pc \in {"cleanup", "done"}
          /\ Len(FinishedLines) = (IF pc = "done" THEN 1 ELSE 0)
    /\ pc \in {"loop", "reread"} => loopExit = "none"

\* the last stage of the table (Stage 3) and the time it starts at
LastStage == Len(STAGES) - 1
LastStageStart == SumDurations(Len(STAGES) - 1)

\* the most recent tick was a Stage 3 tick and was evaluated
Stage3Evaluated == nTicks > 0 /\ stage_idx = LastStage /\ loopExit # "crashed"

\* C19 as stated: every evaluation of a Stage 3 tick aborts, hence no run
\* makes a tick with t > 1200 and no run ends by using up the planned
\* duration.
C19_AsStated ==
    /\ (Stage3Evaluated /\ total_curr # NaN) => aborted
    /\ nTicks <= LastStageStart + 1
    /\ loopExit # "exhausted"

\* C19 amended: with the shipped table and thresholds every evaluation of a
\* Stage 3 tick whose total current is a number aborts, whatever the other
\* readings and the elapsed time.  Hence a run gets past a Stage 3 tick, makes
\* a tick with t > 1200 or ends by using up the planned duration only on
\* Stage 3 ticks whose total current read NaN.
C19_Stage3AbortsOnNumericTotal ==
    /\ (Stage3Evaluated /\ total_curr # NaN) =>
          /\ aborted
          /\ loopExit = "abort"
          /\ total_curr > 100 => RulePos(Last(findings).rule) <= RulePos("total_over_curr")
          /\ total_curr <= 100 => 100 * Abs(total_curr - 160) > 30 * 160
    /\ (Stage3Evaluated /\ ~aborted) => total_curr = NaN
    /\ (pc = "loop" /\ t > LastStageStart) => total_curr = NaN
    /\ loopExit = "exhausted" => total_curr = NaN /\ ~aborted

\* a Stage 3 tick with every ESC at its expected values and the bench at
\* 100 A: not over the limit, and aborted as 37% under the expected 160 A
C19_Witness ==
    /\ Stage3Evaluated
    /\ total_curr = 100
    /\ aborted
    /\ Last(findings) = Finding("ABORT", "total_expect", 0)

\* the enable write as the script makes it when it is accepted
EnableWrite == [val |-> 1, ok |-> TRUE, at |-> "start"]

\* the script is past its first read of the flag and has made no later read
JustStarted == pc # "start" /\ nTicks = 0

\* C20: the script never re-enables the test.  The value 1 is written at most
\* once, as the first write, and only when the first read of the flag was
\* available and < 0.5; every later write is the value 0; a tick that ends
\* without an Abort writes nothing; and when the first read is >= 0.5 the
\* script writes 0 once and makes no tick.
C20_NeverReEnables ==
    /\ \A k \in 1..Len(writes) :
          /\ writes[k].val \in {0, 1}
          /\ writes[k].val = 1 => k = 1 /\ writes[k].at = "start"
          /\ k > 1 => writes[k].val = 0
    /\ JustStarted =>
          /\ lastRead = None => writes = <<>> /\ pc = "exited"
          /\ (lastRead # None /\ BelowHalf(lastRead[1])) =>
                Len(writes) = 1 /\ writes[1].val = 1 /\ writes[1].at = "start"
          /\ (lastRead # None /\ ~BelowHalf(lastRead[1])) =>
                /\ Len(writes) = 1
                /\ writes[1].val = 0
                /\ pc = "done"
    /\ nTicks > 0 => writes # <<>> /\ writes[1] = EnableWrite
    /\ (writes # <<>> /\ writes[1].val = 0) => Len(writes) = 1 /\ nTicks = 0 /\ pc = "done"
    /\ pc \in {"loop", "reread"} => writes = <<EnableWrite>>

\* a tick past the first one ended with Warnings only: the enable is still the
\* only write
C20_Witness ==
    /\ pc = "reread"
    /\ nTicks > 1
    /\ findings # <<>>
    /\ ~HasAbort(findings)
    /\ writes = <<EnableWrite>>

============================================================================
